---- MODULE Spec2Model ----
(***************************************************************************)
(* The documentation site's page layout (src/components/layout.js) and its *)
(* sidebar (src/components/navigation.js): the active-section tracker that *)
(* follows the scroll position, and the navigation rendered from it.       *)
(*                                                                         *)
(* Strings are sequences of one-character strings, so that the path        *)
(* comparison and the anchor identifier transform are computed, character  *)
(* by character.  JavaScript values that may be null or undefined are      *)
(* tagged records (JsNull, JsUndefined, JsString).  Route indices are the  *)
(* 0-based indices of the code; -1 is findIndex's "not found".             *)
(***************************************************************************)
EXTENDS Integers, Sequences, FiniteSets

(***************************************************************************)
(* Bounds of the model.                                                    *)
(***************************************************************************)
\* Scroll positions range over 0..MaxScroll.
MaxScroll == 1
\* Headings lie between Threshold - 1 and Threshold + MaxOffset in the document.
MaxOffset == 1
\* At most MaxBurst scroll events are dispatched between two frames.
MaxBurst == 2

(***************************************************************************)
(* JavaScript values.                                                      *)
(***************************************************************************)
JsNull == [t |-> "null"]
JsUndefined == [t |-> "undefined"]
JsString(s) == [t |-> "string", s |-> s]

(***************************************************************************)
(* The route table (../const, ROUTES): an ordered list of                  *)
(* {path, text, anchors}.  isArray is Array.isArray(route.anchors): FALSE  *)
(* for a route whose anchors field is absent.                              *)
(***************************************************************************)
ROUTES ==
  << [path |-> <<"/">>, text |-> <<"I">>, isArray |-> TRUE, anchors |-> <<>>],
     [path |-> <<"/", "a">>, text |-> <<"R">>, isArray |-> TRUE,
      anchors |-> << <<"A", " ", "b">>, <<"$", "c">>, <<"D">> >>],
     [path |-> <<"/", "b">>, text |-> <<"F">>, isArray |-> FALSE, anchors |-> <<>>],
     [path |-> <<"/", "c">>, text |-> <<"G">>, isArray |-> TRUE,
      anchors |-> << <<"E">>, <<"D">> >>] >>

\* The values this.props.path takes.
Paths ==
  { <<"/">>, <<"/", "a">>, <<"/", "a", "/">>, <<"a">>, <<"/", "b">>,
    <<"/", "c">>, <<"/", "c", "/">>, <<"/", "x">> }

(***************************************************************************)
(* cleanAnchor (./markdown-elements): lower case, every run of characters  *)
(* that are not letters or digits becomes one hyphen, none at either end.  *)
(***************************************************************************)
LowerLetters ==
  {"a", "b", "c", "d", "e", "f", "g", "h", "i", "j", "k", "l", "m",
   "n", "o", "p", "q", "r", "s", "t", "u", "v", "w", "x", "y", "z"}
Digits == {"0", "1", "2", "3", "4", "5", "6", "7", "8", "9"}
ToLowerCase(c) ==
  CASE c = "A" -> "a" [] c = "B" -> "b" [] c = "C" -> "c" [] c = "D" -> "d"
    [] c = "E" -> "e" [] c = "F" -> "f" [] c = "G" -> "g" [] c = "H" -> "h"
    [] c = "I" -> "i" [] c = "J" -> "j" [] c = "K" -> "k" [] c = "L" -> "l"
    [] c = "M" -> "m" [] c = "N" -> "n" [] c = "O" -> "o" [] c = "P" -> "p"
    [] c = "Q" -> "q" [] c = "R" -> "r" [] c = "S" -> "s" [] c = "T" -> "t"
    [] c = "U" -> "u" [] c = "V" -> "v" [] c = "W" -> "w" [] c = "X" -> "x"
    [] c = "Y" -> "y" [] c = "Z" -> "z" [] OTHER -> c

RECURSIVE Hyphenate(_, _)
\* s: the characters left; out: the identifier built so far.
Hyphenate(s, out) ==
  IF s = <<>> THEN
    IF out # <<>> /\ out[Len(out)] = "-" THEN SubSeq(out, 1, Len(out) - 1) ELSE out
  ELSE
    LET c == ToLowerCase(Head(s)) IN
    IF c \in LowerLetters \cup Digits THEN Hyphenate(Tail(s), Append(out, c))
    ELSE IF out = <<>> \/ out[Len(out)] = "-" THEN Hyphenate(Tail(s), out)
    ELSE Hyphenate(Tail(s), Append(out, "-"))

cleanAnchor(anchor) == Hyphenate(anchor, <<>>)

\* The anchors of the route table, and cleanAnchor(anchor) for each of them:
\* ElementId[anchor] stands for the call cleanAnchor(anchor) in the components.
TableAnchors ==
  UNION {{ROUTES[i].anchors[k] : k \in 1..Len(ROUTES[i].anchors)} : i \in 1..Len(ROUTES)}
ElementId == [anchor \in TableAnchors |-> cleanAnchor(anchor)]

(***************************************************************************)
(* State.                                                                  *)
(***************************************************************************)
VARIABLES
  path,           \* this.props.path
  phase,          \* "constructed", "mounted", "crashed", "failed", "unmounted"
  sidebarVisible, \* this.state.sidebarVisible
  activeAnchor,   \* this.state.activeAnchor
  listeners,      \* the functions registered for "scroll" on the document
  frameId,        \* schd: TRUE while the wrapper holds a requested frame
  rafQueue,       \* the number of frame callbacks the browser holds
  dom,            \* element id -> top offset in the document, of the elements present
  scrollY,        \* the document's vertical scroll position
  scrollPending,  \* the document has scrolled and its scroll event is not yet dispatched
  burst,          \* scroll events dispatched since the last frame
  last            \* the last step: its operation and what onScroll did in it

vars ==
  << path, phase, sidebarVisible, activeAnchor, listeners, frameId, rafQueue,
     dom, scrollY, scrollPending, burst, last >>

(***************************************************************************)
(* Layout.getPathIndex: the first route whose path equals the current path *)
(* once every "/" is removed from both, or -1.                             *)
(***************************************************************************)
IsNotSlash(c) == c # "/"
StripSlashes(s) == SelectSeq(s, IsNotSlash)

getPathIndexExact(p) ==
  LET hits == {i \in 1..Len(ROUTES) : ROUTES[i].path = p}
  IN IF hits = {} THEN -1
     ELSE (CHOOSE i \in hits : \A j \in hits : i <= j) - 1

getPathIndex(p) ==
  LET hits == {i \in 1..Len(ROUTES) : StripSlashes(ROUTES[i].path) = StripSlashes(p)}
  IN IF hits = {} THEN -1
     ELSE (CHOOSE i \in hits : \A j \in hits : i <= j) - 1

\* this.getPathIndex() for each value of this.props.path: PathIndex[p] stands
\* for the call getPathIndex(p) in the components.
PathIndex == [p \in Paths |-> getPathIndex(p)]

\* ROUTES[i] is an object (not undefined).
HasRoute(i) == i >= 0 /\ i < Len(ROUTES)
RouteAt(i) == ROUTES[i + 1]

(***************************************************************************)
(* The DOM query surface.                                                  *)
(***************************************************************************)
\* The offset of layout.js:112.
Threshold == 26

DocTops == (Threshold - 1)..(Threshold + MaxOffset)
NoElements == [id \in {} |-> 0]

\* document.getElementById(id) is an element (not null).
HasElement(d, id) == id \in DOMAIN d
\* document.getElementById(id).getBoundingClientRect().top at scroll position y.
BoundingTop(d, y, id) == d[id] - y

\* The element identifiers the headings of the page at path p may carry.
PageIds(p) ==
  LET i == PathIndex[p] IN
  IF HasRoute(i)
    THEN {ElementId[RouteAt(i).anchors[k]] : k \in 1..Len(RouteAt(i).anchors)}
    ELSE {}

(***************************************************************************)
(* Layout.onScroll, the tracker.                                           *)
(***************************************************************************)
\* The test of layout.js:112 on an element's top offset.
PassedLoose(top) == top - Threshold <= 0
Passed(top) == top - Threshold < 0

RECURSIVE ScanAnchorsFirstWins(_, _, _, _, _)
ScanAnchorsFirstWins(anchors, candidate, found, d, y) ==
  IF anchors = <<>> THEN [threw |-> FALSE, activeAnchor |-> candidate]
  ELSE
    LET anchor == Head(anchors) IN
    IF ~HasElement(d, ElementId[anchor])
      THEN [threw |-> TRUE, activeAnchor |-> candidate]
    ELSE IF ~found /\ Passed(BoundingTop(d, y, ElementId[anchor]))
      THEN ScanAnchorsFirstWins(Tail(anchors), JsString(anchor), TRUE, d, y)
    ELSE ScanAnchorsFirstWins(Tail(anchors), candidate, found, d, y)

RECURSIVE ScanAnchors(_, _, _, _)
\* anchors.forEach(...) of layout.js:110-115: el.getBoundingClientRect() throws
\* a TypeError when el is null, and the scan ends there.
ScanAnchors(anchors, candidate, d, y) ==
  IF anchors = <<>> THEN [threw |-> FALSE, activeAnchor |-> candidate]
  ELSE
    LET anchor == Head(anchors) IN
    IF ~HasElement(d, ElementId[anchor])
      THEN [threw |-> TRUE, activeAnchor |-> candidate]
    ELSE IF Passed(BoundingTop(d, y, ElementId[anchor]))
      THEN ScanAnchors(Tail(anchors), JsString(anchor), d, y)
    ELSE ScanAnchors(Tail(anchors), candidate, d, y)

\* anchors[0]: undefined for an empty array.
FirstOf(anchors) == IF anchors = <<>> THEN JsUndefined ELSE JsString(anchors[1])

onScrollFirstWins(p, d, y) ==
  LET pathIndex == PathIndex[p] IN
  IF ~HasRoute(pathIndex) \/ ~RouteAt(pathIndex).isArray
    THEN [threw |-> TRUE, activeAnchor |-> JsUndefined]
    ELSE ScanAnchorsFirstWins(RouteAt(pathIndex).anchors,
                              FirstOf(RouteAt(pathIndex).anchors), FALSE, d, y)

\* What one call of onScroll does with the page at path p, the DOM d and the
\* scroll position y: it throws (threw), or calls setState({activeAnchor}).
onScroll(p, d, y) ==
  LET pathIndex == PathIndex[p] IN
  IF ~HasRoute(pathIndex) \/ ~RouteAt(pathIndex).isArray
    THEN [threw |-> TRUE, activeAnchor |-> JsUndefined]
    ELSE ScanAnchors(RouteAt(pathIndex).anchors,
                     FirstOf(RouteAt(pathIndex).anchors), d, y)

\* The initial state.activeAnchor of layout.js:91-95.
InitialActiveAnchor(p) ==
  LET pathIndex == PathIndex[p] IN
  IF HasRoute(pathIndex) /\ RouteAt(pathIndex).isArray
    THEN FirstOf(RouteAt(pathIndex).anchors)
    ELSE JsNull

(***************************************************************************)
(* Navigation and Layout.render.                                           *)
(***************************************************************************)
AnchorItemsEveryRoute(pathIndex, index, active) ==
  IF HasRoute(pathIndex) /\ RouteAt(pathIndex).isArray
    THEN [k \in 1..Len(RouteAt(pathIndex).anchors) |->
            [text |-> RouteAt(pathIndex).anchors[k],
             href |-> <<"#">> \o ElementId[RouteAt(pathIndex).anchors[k]],
             active |-> active = JsString(RouteAt(pathIndex).anchors[k])]]
    ELSE <<>>

\* The sub-items of the route at index: ROUTES[pathIndex].anchors.map(...),
\* rendered when pathIndex === index.
AnchorItems(pathIndex, index, active) ==
  IF pathIndex = index /\ RouteAt(pathIndex).isArray
    THEN [k \in 1..Len(RouteAt(pathIndex).anchors) |->
            [text |-> RouteAt(pathIndex).anchors[k],
             href |-> <<"#">> \o ElementId[RouteAt(pathIndex).anchors[k]],
             active |-> active = JsString(RouteAt(pathIndex).anchors[k])]]
    ELSE <<>>

\* $active of the route's item.
RouteActive(pathIndex, index) == pathIndex = index

\* The sidebar: per route index, whether it is marked active and its sub-items.
\* threw: anchors.map was called on a route without an anchors array.
Navigation(isVisible, pathIndex, active) ==
  [threw |-> \E index \in 0..(Len(ROUTES) - 1) :
               pathIndex = index /\ ~RouteAt(pathIndex).isArray,
   isVisible |-> isVisible,
   routes |-> [index \in 0..(Len(ROUTES) - 1) |->
                 [active |-> RouteActive(pathIndex, index),
                  items |-> AnchorItems(pathIndex, index, active)]]]

\* Layout.render: the previous and next links (-1: none) and the sidebar.
render(p, visible, active) ==
  LET pathIndex == PathIndex[p]
      prevRoute == IF pathIndex > 0 THEN pathIndex - 1 ELSE -1
      nextRoute == IF pathIndex > -1 /\ pathIndex < Len(ROUTES) - 1
                     THEN pathIndex + 1 ELSE -1
      nav == Navigation(visible, pathIndex, active)
  IN [threw |-> nav.threw, prev |-> prevRoute, next |-> nextRoute, nav |-> nav]

\* What the page shows in the current state.
View == render(path, sidebarVisible, activeAnchor)

(***************************************************************************)
(* schd (../helpers/schd): the wrapper requests one animation frame unless *)
(* it already holds one; the frame's callback releases it and calls the    *)
(* wrapped function.                                                       *)
(***************************************************************************)
\* One call of the wrapper, from the state (held, queued) of the wrapper and
\* of the browser's frame queue.
schdCall(held, queued) ==
  IF held THEN [frameId |-> held, rafQueue |-> queued]
          ELSE [frameId |-> TRUE, rafQueue |-> queued + 1]

(***************************************************************************)
(* Initial state: the layout is constructed for some path, on a document   *)
(* that holds some of the page's headings, at some scroll position, the    *)
(* scroll that led there announced to the listeners or not yet.            *)
(***************************************************************************)
Step(op, ran, outcome) == [op |-> op, runs |-> ran, onScroll |-> outcome]
Outcome(r) == IF r.threw THEN "threw" ELSE "returned"

Init ==
  /\ path \in Paths
  /\ phase = "constructed"
  /\ sidebarVisible = FALSE
  /\ activeAnchor = InitialActiveAnchor(path)
  /\ listeners = {}
  /\ frameId = FALSE
  /\ rafQueue = 0
  /\ dom \in UNION {[ids -> DocTops] : ids \in SUBSET PageIds(path)}
  /\ scrollY \in 0..MaxScroll
  /\ scrollPending \in BOOLEAN
  /\ burst = 0
  /\ last = Step("constructor", 0, "none")

(***************************************************************************)
(* Mounting: the first render, then componentDidMount.                     *)
(***************************************************************************)
\* The function componentDidMount registers for "scroll" (layout.js:99).
RegisteredDirect == "onScroll"
Registered == "debouncedOnScroll"

\* The function componentWillUnmount unregisters (layout.js:104).
Unregistered == "debouncedOnScroll"

componentDidMountNoRun ==
  LET pathIndex == PathIndex[path] IN
  IF ~HasRoute(pathIndex) THEN
    /\ phase' = "crashed"
    /\ last' = Step("componentDidMount", 0, "none")
    /\ UNCHANGED <<activeAnchor, listeners>>
  ELSE
    /\ listeners' = IF RouteAt(pathIndex).isArray
                      THEN listeners \cup {Registered} ELSE listeners
    /\ phase' = "mounted"
    /\ last' = Step("componentDidMount", 0, "none")
    /\ UNCHANGED activeAnchor

componentDidMountNoListener ==
  LET pathIndex == PathIndex[path] IN
  IF ~HasRoute(pathIndex) THEN
    /\ phase' = "crashed"
    /\ last' = Step("componentDidMount", 0, "none")
    /\ UNCHANGED <<activeAnchor, listeners>>
  ELSE IF RouteAt(pathIndex).isArray THEN
    LET r == onScroll(path, dom, scrollY) IN
    /\ activeAnchor' = IF r.threw THEN activeAnchor ELSE r.activeAnchor
    /\ phase' = IF r.threw THEN "crashed" ELSE "mounted"
    /\ last' = Step("componentDidMount", 1, Outcome(r))
    /\ UNCHANGED listeners
  ELSE
    /\ phase' = "mounted"
    /\ last' = Step("componentDidMount", 0, "none")
    /\ UNCHANGED <<activeAnchor, listeners>>

\* ROUTES[-1].anchors throws a TypeError: the layout is committed and its
\* lifecycle failed ("crashed"); React then tears the tree down (Unmount).
componentDidMount ==
  LET pathIndex == PathIndex[path] IN
  IF ~HasRoute(pathIndex) THEN
    /\ phase' = "crashed"
    /\ last' = Step("componentDidMount", 0, "none")
    /\ UNCHANGED <<activeAnchor, listeners>>
  ELSE IF RouteAt(pathIndex).isArray THEN
    LET r == onScroll(path, dom, scrollY) IN
    /\ listeners' = listeners \cup {Registered}
    /\ activeAnchor' = IF r.threw THEN activeAnchor ELSE r.activeAnchor
    /\ phase' = IF r.threw THEN "crashed" ELSE "mounted"
    /\ last' = Step("componentDidMount", 1, Outcome(r))
  ELSE
    /\ phase' = "mounted"
    /\ last' = Step("componentDidMount", 0, "none")
    /\ UNCHANGED <<activeAnchor, listeners>>

\* A render that throws commits nothing: the layout never mounts ("failed").
Mount ==
  /\ phase = "constructed"
  /\ IF View.threw
       THEN /\ phase' = "failed"
            /\ last' = Step("render", 0, "none")
            /\ UNCHANGED <<activeAnchor, listeners>>
       ELSE componentDidMount
  /\ UNCHANGED <<path, sidebarVisible, frameId, rafQueue, dom, scrollY,
                 scrollPending, burst>>

(***************************************************************************)
(* Unmounting: componentWillUnmount, and the page's headings, rendered as  *)
(* the layout's children, leave the document.                              *)
(***************************************************************************)
componentWillUnmount ==
  listeners' = listeners \ {Unregistered}

Unmount ==
  /\ phase \in {"mounted", "crashed"}
  /\ componentWillUnmount
  /\ phase' = "unmounted"
  /\ dom' = NoElements
  /\ last' = Step("componentWillUnmount", 0, "none")
  /\ UNCHANGED <<path, sidebarVisible, activeAnchor, frameId, rafQueue, scrollY,
                 scrollPending, burst>>

(***************************************************************************)
(* The document scrolls to y (the wheel, window.scrollTo, or a fragment    *)
(* link such as the sidebar's sub-items): the position changes at once,    *)
(* and the scroll event is dispatched later.  No listener is called here.  *)
(***************************************************************************)
ScrollTo(y) ==
  /\ phase \in {"mounted", "unmounted"}
  /\ y # scrollY
  /\ scrollY' = y
  /\ scrollPending' = TRUE
  /\ last' = Step("scrollTo", 0, "none")
  /\ UNCHANGED <<path, phase, sidebarVisible, activeAnchor, listeners, frameId,
                 rafQueue, dom, burst>>

(***************************************************************************)
(* The pending scroll event is dispatched: every listener registered at    *)
(* that moment is called.  onScroll reads the position current at the      *)
(* call.  setState on an unmounted component changes nothing.              *)
(***************************************************************************)
ScrollEvent ==
  /\ phase \in {"mounted", "unmounted"}
  /\ scrollPending
  /\ burst < MaxBurst
  /\ scrollPending' = FALSE
  /\ burst' = burst + 1
  /\ LET s == IF "debouncedOnScroll" \in listeners
                THEN schdCall(frameId, rafQueue)
                ELSE [frameId |-> frameId, rafQueue |-> rafQueue]
     IN frameId' = s.frameId /\ rafQueue' = s.rafQueue
  /\ IF "onScroll" \in listeners
       THEN LET r == onScroll(path, dom, scrollY) IN
            /\ activeAnchor' = IF r.threw \/ phase # "mounted"
                                 THEN activeAnchor ELSE r.activeAnchor
            /\ last' = Step("scroll", 1, Outcome(r))
       ELSE /\ last' = Step("scroll", 0, "none")
            /\ UNCHANGED activeAnchor
  /\ UNCHANGED <<path, phase, sidebarVisible, listeners, dom, scrollY>>

(***************************************************************************)
(* An animation frame: the browser calls every queued frame callback; each *)
(* releases the wrapper and calls onScroll.                                *)
(***************************************************************************)
Frame ==
  /\ phase \in {"mounted", "unmounted"}
  /\ burst > 0 \/ rafQueue > 0
  /\ burst' = 0
  /\ IF rafQueue > 0
       THEN LET r == onScroll(path, dom, scrollY) IN
            /\ frameId' = FALSE
            /\ rafQueue' = 0
            /\ activeAnchor' = IF r.threw \/ phase # "mounted"
                                 THEN activeAnchor ELSE r.activeAnchor
            /\ last' = Step("frame", rafQueue, Outcome(r))
       ELSE /\ last' = Step("frame", 0, "none")
            /\ UNCHANGED <<frameId, rafQueue, activeAnchor>>
  /\ UNCHANGED <<path, phase, sidebarVisible, listeners, dom, scrollY, scrollPending>>

(***************************************************************************)
(* The burger button's onClick (layout.js:163-166).                        *)
(***************************************************************************)
ToggleSidebar ==
  /\ phase = "mounted"
  /\ sidebarVisible' = ~sidebarVisible
  /\ last' = Step("toggle", 0, "none")
  /\ UNCHANGED <<path, phase, activeAnchor, listeners, frameId, rafQueue, dom,
                 scrollY, scrollPending, burst>>

Next ==
  \/ Mount
  \/ Unmount
  \/ \E y \in 0..MaxScroll : ScrollTo(y)
  \/ ScrollEvent
  \/ Frame
  \/ ToggleSidebar

Spec == Init /\ [][Next]_vars

\* The browser dispatches a pending scroll event and runs a requested
\* animation frame.
FairSpec == Spec /\ WF_vars(ScrollEvent) /\ WF_vars(Frame)

(***************************************************************************)
(* Vocabulary of the properties.                                           *)
(***************************************************************************)
\* The anchor list of the route the current path matches (empty when there is
\* no such route or it carries no list).
CurrentAnchors ==
  IF HasRoute(PathIndex[path]) /\ RouteAt(PathIndex[path]).isArray
    THEN RouteAt(PathIndex[path]).anchors
    ELSE <<>>

\* The current path matches a route whose anchor list is not empty.
RouteHasAnchors == CurrentAnchors # <<>>

\* The current path matches a route whose anchor list is the empty list.
RouteHasEmptyList ==
  /\ HasRoute(PathIndex[path])
  /\ RouteAt(PathIndex[path]).isArray
  /\ RouteAt(PathIndex[path]).anchors = <<>>

\* Every anchor of the current route has its element in the document.
AllPresent ==
  \A k \in 1..Len(CurrentAnchors) : ElementId[CurrentAnchors[k]] \in DOMAIN dom

\* The positions, in the list, of the anchors whose element is present and
\* whose top offset minus 26 is below zero at the current scroll position.
PassedPositions ==
  {k \in 1..Len(CurrentAnchors) :
     /\ ElementId[CurrentAnchors[k]] \in DOMAIN dom
     /\ (dom[ElementId[CurrentAnchors[k]]] - scrollY) - 26 < 0}

\* The last passed anchor in list order, or the first anchor when none is passed.
Classification ==
  IF PassedPositions = {}
    THEN JsString(CurrentAnchors[1])
    ELSE JsString(CurrentAnchors[CHOOSE k \in PassedPositions :
                                   \A j \in PassedPositions : j <= k])

\* The layout is committed to the document.
IsMounted == phase \in {"mounted", "crashed"}

(***************************************************************************)
(* C1.  After every run of the tracker that returns, on a route with a     *)
(* non-empty anchor list, activeAnchor is the last anchor in list order    *)
(* whose element's top offset minus 26 is below zero, and the first anchor *)
(* of the list when there is none.  (A run returns only when every anchor  *)
(* has its element; a run that throws is the case of C4.)                  *)
(***************************************************************************)
C1_LastPassedWins ==
  (RouteHasAnchors /\ last.onScroll = "returned") => activeAnchor = Classification

\* Anchors [A b, $c, D]: the first two passed, the third not, gives the second.
C1_Witness ==
  /\ Len(CurrentAnchors) = 3
  /\ last.op = "frame"
  /\ last.onScroll = "returned"
  /\ PassedPositions = {1, 2}
  /\ activeAnchor = JsString(CurrentAnchors[2])

(***************************************************************************)
(* C2.  For a route whose anchor list is empty the tracker is inert: no    *)
(* scroll listener is ever registered, onScroll never runs, and            *)
(* activeAnchor is null from construction on.                              *)
(***************************************************************************)
C2_EmptyListInert ==
  RouteHasEmptyList =>
    /\ listeners = {}
    /\ last.runs = 0
    /\ activeAnchor = JsNull

(***************************************************************************)
(* C3.  From construction on, while the layout is mounted, activeAnchor is *)
(* null or a member of the anchor list of the route the path matches.      *)
(***************************************************************************)
C3_ActiveAnchorDomain ==
  phase \in {"constructed", "mounted"} =>
    \/ activeAnchor = JsNull
    \/ \E k \in 1..Len(CurrentAnchors) : activeAnchor = JsString(CurrentAnchors[k])

(***************************************************************************)
(* C4.  When the tracker runs and the element of some anchor is absent,    *)
(* the anchor is skipped: the run returns, and activeAnchor is the result  *)
(* computed from the anchors whose elements exist.                         *)
(***************************************************************************)
C4_MissingElementSkipped ==
  (IsMounted /\ RouteHasAnchors /\ last.runs > 0 /\ ~AllPresent) =>
    /\ last.onScroll = "returned"
    /\ activeAnchor = Classification

(***************************************************************************)
(* C5.  The scroll listener is registered if and only if the layout is     *)
(* mounted and its route has anchors, and at most one registration exists. *)
(***************************************************************************)
C5_ListenerIffMountedWithAnchors ==
  /\ (listeners # {}) <=> (IsMounted /\ RouteHasAnchors)
  /\ Cardinality(listeners) <= 1

(***************************************************************************)
(* C6.  Scroll events are coalesced: the registered listener is the        *)
(* rate-limited wrapper and never onScroll itself, at most one frame       *)
(* callback is pending, a raw scroll event runs onScroll not at all, and a *)
(* frame runs it at most once whatever the number of events before it.     *)
(***************************************************************************)
C6_Coalesced ==
  /\ listeners \subseteq {"debouncedOnScroll"}
  /\ rafQueue <= 1
  /\ frameId <=> (rafQueue = 1)
  /\ last.op = "scroll" => last.runs = 0
  /\ last.op = "frame" => last.runs <= 1

\* Two scroll events have been dispatched since the last frame; one call is pending.
C6_Witness ==
  /\ burst >= 2
  /\ "debouncedOnScroll" \in listeners
  /\ rafQueue = 1

(***************************************************************************)
(* C7.  On a route with anchors, activeAnchor is the first anchor at       *)
(* construction, and mounting runs the tracker exactly once, before any    *)
(* scroll event: right after a mount whose run returned, activeAnchor is   *)
(* the classification of the scroll position at mount time.                *)
(***************************************************************************)
C7_TrackerRunsOnMount ==
  RouteHasAnchors =>
    /\ phase = "constructed" => activeAnchor = JsString(CurrentAnchors[1])
    /\ last.op = "componentDidMount" =>
         /\ last.runs = 1
         /\ burst = 0
         /\ last.onScroll = "returned" => activeAnchor = Classification

\* A page loaded already scrolled shows a later section right after mount.
C7_Witness ==
  /\ last.op = "componentDidMount"
  /\ last.onScroll = "returned"
  /\ phase = "mounted"
  /\ scrollY > 0
  /\ Len(CurrentAnchors) = 3
  /\ activeAnchor = JsString(CurrentAnchors[3])

(***************************************************************************)
(* C8.  A recomputation run by a frame classifies the scroll position that *)
(* is current when it runs; and while the layout is mounted on a route     *)
(* with anchors, an activeAnchor that differs from the classification of   *)
(* the current scroll position has the scroll event of that position still *)
(* to be dispatched or a recomputation pending, and comes to equal the     *)
(* classification of the position the scrolling settles at.                *)
(***************************************************************************)
\* activeAnchor is not the classification of the current scroll position.
Stale ==
  /\ phase = "mounted"
  /\ RouteHasAnchors
  /\ AllPresent
  /\ activeAnchor # Classification

ActiveRoutes == {i \in 0..(Len(ROUTES) - 1) : View.nav.routes[i].active}

\* The indices of the routes whose path equals the current path, "/" stripped.
MatchingRoutes ==
  {i \in 0..(Len(ROUTES) - 1) : StripSlashes(ROUTES[i + 1].path) = StripSlashes(path)}

C9_ExactlyOneRouteActive ==
  (phase # "constructed" /\ ~View.threw) => Cardinality(ActiveRoutes) = 1

(***************************************************************************)
(* C9, amended.  In every render that completes: when the current path     *)
(* matches a route, "/" stripped from both, exactly one route is marked    *)
(* active, the first matching one; when it matches none, none is marked.   *)
(***************************************************************************)
C9_ActiveRouteIsTheMatch ==
  (phase # "constructed" /\ ~View.threw) =>
    /\ MatchingRoutes = {} => ActiveRoutes = {}
    /\ MatchingRoutes # {} =>
         /\ Cardinality(ActiveRoutes) = 1
         /\ ActiveRoutes \subseteq MatchingRoutes
         /\ \A i \in ActiveRoutes : \A j \in MatchingRoutes : i <= j

\* Path "/a/" marks the route of path "/a".
C9_Witness ==
  /\ phase = "mounted"
  /\ path = <<"/", "a", "/">>
  /\ ActiveRoutes = {1}
  /\ ROUTES[2].path = <<"/", "a">>

(***************************************************************************)
(* C10.  Anchor sub-items are rendered for the active route only, one per  *)
(* anchor in list order; and on a mounted route with anchors exactly one   *)
(* sub-item is marked active, the one equal to activeAnchor.               *)
(***************************************************************************)
\* The positions of the sub-items of route i that are marked active.
ActiveItems(i) ==
  {k \in 1..Len(View.nav.routes[i].items) : View.nav.routes[i].items[k].active}

C10_OneActiveSubItem ==
  (phase # "constructed" /\ ~View.threw) =>
    /\ \A i \in 0..(Len(ROUTES) - 1) :
         i \notin ActiveRoutes => View.nav.routes[i].items = <<>>
    /\ \A i \in ActiveRoutes :
         /\ Len(View.nav.routes[i].items) = Len(CurrentAnchors)
         /\ \A k \in 1..Len(CurrentAnchors) :
              View.nav.routes[i].items[k].text = CurrentAnchors[k]
    /\ (IsMounted /\ RouteHasAnchors) =>
         \A i \in ActiveRoutes :
           /\ Cardinality(ActiveItems(i)) = 1
           /\ \A k \in ActiveItems(i) : JsString(CurrentAnchors[k]) = activeAnchor

\* The second section is the active one, and the only sub-item marked active.
C10_Witness ==
  /\ phase = "mounted"
  /\ Len(CurrentAnchors) = 3
  /\ activeAnchor = JsString(CurrentAnchors[2])
  /\ ActiveItems(PathIndex[path]) = {2}
  /\ last.op = "frame"

(***************************************************************************)
(* C12.  As claimed: an anchor counts as passed when its element's top is  *)
(* at or above the point 26px below the viewport top, so that an element   *)
(* whose top offset is exactly 26 is passed and becomes the candidate.     *)
(***************************************************************************)
\* The top offset of the element of the anchor at position k of the list.
TopOf(k) == dom[ElementId[CurrentAnchors[k]]] - scrollY

\* The positions whose element's top offset is at most 26.
AtOrAbove26 == {k \in 1..Len(CurrentAnchors) : TopOf(k) <= 26}

C12_TopAt26IsPassed ==
  (RouteHasAnchors /\ last.onScroll = "returned") =>
    \A k \in AtOrAbove26 :
      (\A j \in AtOrAbove26 : j <= k) => activeAnchor = JsString(CurrentAnchors[k])

(***************************************************************************)
(* C12, amended.  An anchor counts as passed when its element's top is     *)
(* strictly above the point 26px below the viewport top: after a run that  *)
(* returns, an anchor other than the first whose top offset is 26 or more  *)
(* is not the active one, and the active anchor is never listed before an  *)
(* anchor whose top offset is 25 or less.                                  *)
(***************************************************************************)
C12_TopAt26IsNotPassed ==
  (RouteHasAnchors /\ last.onScroll = "returned") =>
    \A k \in 1..Len(CurrentAnchors) :
      /\ (k > 1 /\ TopOf(k) >= 26) => activeAnchor # JsString(CurrentAnchors[k])
      /\ TopOf(k) <= 25 =>
           \E j \in k..Len(CurrentAnchors) : activeAnchor = JsString(CurrentAnchors[j])

\* The second heading is exactly 26px below the viewport top, the first has been
\* passed: the first stays the active one.
C12_Witness ==
  /\ last.onScroll = "returned"
  /\ Len(CurrentAnchors) = 3
  /\ TopOf(1) = 25
  /\ TopOf(2) = 26
  /\ TopOf(3) > 26
  /\ activeAnchor = JsString(CurrentAnchors[1])

(***************************************************************************)
(* C13.  Once the layout is unmounted the tracker never runs again: no     *)
(* step taken after unmount runs onScroll, not even the frame of a scroll  *)
(* event that was coalesced before the unmount.  (Stated for the routes    *)
(* with anchors, the pages on which scroll events are listened to.)        *)
(***************************************************************************)
C13_NoRunAfterUnmount ==
  (RouteHasAnchors /\ phase = "unmounted") => last.runs = 0

(***************************************************************************)
(* C14.  When the current path matches no route, construction, render,     *)
(* mount and unmount complete without failure: activeAnchor is null, no    *)
(* scroll listener is registered, no route is marked active, and neither a *)
(* previous nor a next link is rendered.                                   *)
(***************************************************************************)
C14_UnmatchedPathHandled ==
  PathIndex[path] = -1 =>
    /\ phase \notin {"crashed", "failed"}
    /\ ~View.threw
    /\ activeAnchor = JsNull
    /\ listeners = {}
    /\ ActiveRoutes = {}
    /\ View.prev = -1
    /\ View.next = -1

(***************************************************************************)
(* C15.  A current route whose anchors field is absent is handled as a     *)
(* page without anchors: activeAnchor is null, no scroll listener is       *)
(* registered, and the page mounts with the route marked active and no     *)
(* anchor sub-items, the render not failing.                               *)
(***************************************************************************)
\* The current path matches a route without an anchors array.
RouteLacksAnchors ==
  HasRoute(PathIndex[path]) /\ ~RouteAt(PathIndex[path]).isArray

C15_AbsentAnchorsHandled ==
  RouteLacksAnchors =>
    /\ activeAnchor = JsNull
    /\ listeners = {}
    /\ phase \notin {"crashed", "failed"}
    /\ phase # "constructed" =>
         /\ ~View.threw
         /\ ActiveRoutes = {PathIndex[path]}
         /\ View.nav.routes[PathIndex[path]].items = <<>>

====
